---- MODULE Spec2Model ----
(***************************************************************************)
(* GenericExecutor of pilot/eventservice/workexecutor/plugins/             *)
(* raythenaexecutor.py: the event-range execution orchestrator.            *)
(*                                                                         *)
(* The specifications share the state:                                     *)
(*   ApiSpec  the public methods handle_out_message(), stageout_es() and   *)
(*            clean() called one after the other, in any order, on a       *)
(*            freshly constructed executor (self.proc is None);            *)
(*   Spec     one execution of run(), statement by statement, with the     *)
(*            worker process, the stop signal, the clock and the           *)
(*            notification hook as its environment;                        *)
(*   FairSpec   Spec with run()'s thread kept scheduled and a worker       *)
(*            process that eventually exits;                               *)
(*   ThreadSpec handle_out_message() in the notification thread against    *)
(*            stageout_es() in the supervisor thread, statement by         *)
(*            statement;                                                   *)
(*   ReportSpec update_failed_event_ranges() and                           *)
(*            update_finished_event_ranges() called with lists.            *)
(***************************************************************************)
EXTENDS Integers, Sequences, FiniteSets, TLC

(* ------------------------------ bounds -------------------------------- *)

\* outcome messages handle_out_message() is given in one behaviour
MaxMsgs == 2

\* the clock runs from 0 to MaxTime
MaxTime == 2

\* collaborator calls that raise in one behaviour
MaxFaults == 2

\* ticks of run()'s poll loop (the code's `iteration`)
MaxIter == 1

\* job.infosys.queuedata.es_stageout_gap, a queue-level configuration value
EsStageoutGap == 1

(* ----------------------------- constants ------------------------------ *)

\* Python's None, and a value that is not None
None == <<>>

Some(v) == <<v>>

\* the errorCode of a failure record
ErrorCodePlaceholder == 1220

\* the seconds run() sleeps at the end of a tick of its poll loop
PollSleep == 5

\* the exit code set by run()'s exception handler
SentinelExitCode == -1

\* the status the worker process can exit with (poll() once it is dead)
WorkerExitStatus == {0, 1}

FailureStatuses == {"failed", "fatal"}

\* 'finished' messages carry an output path, 'failed'/'fatal' ones do not;
\* "running" stands for any status the code does not name.
MessageKinds ==
    { [status |-> "finished", output |-> TRUE],
      [status |-> "failed",   output |-> FALSE],
      [status |-> "fatal",    output |-> FALSE],
      [status |-> "running",  output |-> TRUE] }

\* the parsed message dict {'id', 'status', 'output'}: the output path of
\* message i is written i, and 0 when the dict has no 'output' key
Message(i, k) ==
    [id |-> i, status |-> k.status, output |-> IF k.output THEN i ELSE 0]

HasOutput(msg) == msg.output # 0

(* ------------------------------ state --------------------------------- *)

VARIABLES
    w,          \* the executor's private fields and what its collaborators saw
    proc,       \* self.proc: None or Some("ESProcess")
    exit_code,  \* self.exit_code
    pc,         \* position of run()
    ret,        \* where clean() returns to: "normal" or "handler"
    payload,    \* run()'s local `payload`: "unbound" or "payload"
    iteration,  \* run()'s local `iteration`
    worker,     \* the worker process: [hooked, alive, status, stopped]
    stop,       \* the external stop signal, is_stop()
    now,        \* time.time()
    nmsgs,      \* messages delivered so far
    nfaults,    \* collaborator calls that raised so far
    trace,      \* the calls run() has made, in order
    call,       \* the last method call and what it was seen to do
    cycle,      \* the messages received since the last flush or clean()
    hpc,        \* position of the notification thread in handle_out_message()
    spc,        \* position of the supervisor thread in stageout_es()
    out_messages \* stageout_es()'s local list `out_messages`

\* the positions inside handle_out_message() and stageout_es(); they move
\* only where the two methods are taken statement by statement (ThreadSpec)
threads == <<hpc, spc, out_messages>>

vars == <<w, proc, exit_code, pc, ret, payload, iteration, worker, stop, now, nmsgs,
          nfaults, trace, call, cycle, hpc, spc, out_messages>>

\* w.queued_out_messages, w.last_stageout_time, w.all_out_messages: the fields
\* w.nevents: job.nevents;  w.sent: the update_events() calls, in order
\* w.removed: the removals clean() announces in its log (line 137), in order
\* w.unlinked: the os.remove() calls, in order
\* w.raised: the last method call ended in an exception
InitWorld ==
    [queued_out_messages |-> <<>>,
     last_stageout_time  |-> None,
     all_out_messages    |-> <<>>,
     nevents             |-> 0,
     sent                |-> <<>>,
     removed             |-> <<>>,
     unlinked            |-> <<>>,
     raised              |-> FALSE]

(* --------------------------- pure helpers ----------------------------- *)

RECURSIVE Reverse(_)
Reverse(s) == IF s = <<>> THEN <<>> ELSE Append(Reverse(Tail(s)), Head(s))

Raise(x) == [x EXCEPT !.raised = TRUE]

Return(x) == [x EXCEPT !.raised = FALSE]

(* -------------------------- the methods ------------------------------- *)
(* Each method is a function of the world before the call, its arguments  *)
(* and `f`, the collaborator call that raises during it ("none": none).   *)
(* The calls that can raise are those that leave the executor: the        *)
(* job-update interface, the worker process handle, the payload source    *)
(* and the communicator. get_job() and get_logger() read the job the      *)
(* executor was given and return.                                         *)

\* BaseExecutor.update_events(): the job-update interface records the report
update_events(x, report, f) ==
    [x EXCEPT !.sent = Append(@, [report |-> report, ok |-> f # "update_events"]),
              !.raised = (f = "update_events")]

\* lines 64-66 with the message's own status as eventStatus
FinishedRangesOwnStatus(out_messagess) ==
    [i \in 1..Len(out_messagess) |->
        [eventRangeID |-> out_messagess[i].id,
         eventStatus  |-> out_messagess[i].status,
         fileLocation |-> out_messagess[i].output]]

\* lines 64-66: one entry per message, always with eventStatus 'finished'
FinishedRanges(out_messagess) ==
    [i \in 1..Len(out_messagess) |->
        [eventRangeID |-> out_messagess[i].id,
         eventStatus  |-> "finished",
         fileLocation |-> out_messagess[i].output]]

\* lines 67-69
FinishedReport(out_messagess) ==
    [version |-> 1,
     eventRanges |-> << [esOutput    |-> [numEvents |-> Len(out_messagess)],
                         eventRanges |-> FinishedRanges(out_messagess)] >>]

\* lines 55-73 with `job.nevents += 1` at line 73
update_finished_event_ranges_plus_one(x, out_messagess, f) ==
    IF Len(out_messagess) = 0 THEN Return(x)
    ELSE LET x1 == update_events(x, FinishedReport(out_messagess), f)
         IN  IF x1.raised THEN x1
             ELSE Return([x1 EXCEPT !.nevents = @ + 1])

\* lines 55-73
update_finished_event_ranges(x, out_messagess, f) ==
    IF Len(out_messagess) = 0 THEN Return(x)
    ELSE LET x1 == update_events(x, FinishedReport(out_messagess), f)
         IN  IF x1.raised THEN x1
             ELSE Return([x1 EXCEPT !.nevents = @ + Len(out_messagess)])

\* lines 86-88
FailedRange(message) ==
    [errorCode    |-> ErrorCodePlaceholder,
     eventRangeID |-> message.id,
     eventStatus  |-> IF message.status \in FailureStatuses
                      THEN message.status ELSE "failed"]

\* lines 85-90: update_events() is called inside the loop, once per message,
\* each time with the records accumulated so far
RECURSIVE FailedLoop(_, _, _, _)
FailedLoop(x, event_ranges, rest, f) ==
    IF rest = <<>> THEN Return(x)
    ELSE LET ranges == Append(event_ranges, FailedRange(Head(rest)))
             x1 == update_events(x, [version |-> 0, eventRanges |-> ranges], f)
         IN  IF x1.raised THEN x1
             ELSE FailedLoop(x1, ranges, Tail(rest), f)

update_failed_event_ranges(x, out_messagess, f) ==
    IF Len(out_messagess) = 0 THEN Return(x)
    ELSE FailedLoop(x, <<>>, out_messagess, f)

\* line 107 testing for 'failed' alone
IsFailureOnlyFailed(message) == message.status = "failed"

\* line 107
IsFailure(message) == message.status \in FailureStatuses

\* lines 107-110 without the `else`: every message is queued
handle_out_message_queue_all(x, message, f) ==
    LET x1 == [x EXCEPT !.all_out_messages = Append(@, message),
                        !.queued_out_messages = Append(@, message)]
    IN  IF message.status \in FailureStatuses
        THEN update_failed_event_ranges(x1, <<message>>, f)
        ELSE Return(x1)

\* line 105 moved behind lines 107-110: the audit log is written last
handle_out_message_log_last(x, message, f) ==
    LET y == IF IsFailure(message)
             THEN update_failed_event_ranges(x, <<message>>, f)
             ELSE Return([x EXCEPT !.queued_out_messages = Append(@, message)])
    IN  IF y.raised THEN y
        ELSE [y EXCEPT !.all_out_messages = Append(@, message)]

\* lines 101-110
handle_out_message(x, message, f) ==
    LET x1 == [x EXCEPT !.all_out_messages = Append(@, message)]
    IN  IF IsFailure(message)
        THEN update_failed_event_ranges(x1, <<message>>, f)
        ELSE Return([x1 EXCEPT !.queued_out_messages = Append(@, message)])

\* line 119
ShouldStageout(force, last, t) ==
    force \/ last = None \/ t > last[1] + EsStageoutGap

\* lines 120-122 with `if` for `while`: one pop()
DrainQueueOnce(q) ==
    [taken |-> <<q[Len(q)]>>, left |-> SubSeq(q, 1, Len(q) - 1)]

\* lines 120-122: pop() takes from the end of the list until it is empty
DrainQueue(q) == [taken |-> Reverse(q), left |-> <<>>]

\* stageout_es() recording the time of the call before it looks at the queue
stageout_es_stamp_first(x, force, t, f) ==
    LET x0 == [x EXCEPT !.last_stageout_time = Some(t)]
    IN  IF Len(x.queued_out_messages) > 0
           /\ ShouldStageout(force, x.last_stageout_time, t)
        THEN update_finished_event_ranges(
                 [x0 EXCEPT !.queued_out_messages = <<>>],
                 Reverse(x.queued_out_messages), f)
        ELSE Return(x0)

stageout_es(x, force, t, f) ==
    IF Len(x.queued_out_messages) > 0
       /\ ShouldStageout(force, x.last_stageout_time, t)
    THEN LET d == DrainQueue(x.queued_out_messages)
         IN  update_finished_event_ranges(
                 [x EXCEPT !.queued_out_messages = d.left], d.taken, f)
    ELSE Return(x)

\* lines 132-137: the messages whose output file clean() announces it removes
RECURSIVE RemovalCandidates(_)
RemovalCandidates(msgs) ==
    IF msgs = <<>> THEN <<>>
    ELSE IF ~IsFailure(Head(msgs)) /\ HasOutput(Head(msgs))
         THEN <<Head(msgs).output>> \o RemovalCandidates(Tail(msgs))
         ELSE RemovalCandidates(Tail(msgs))

\* lines 129-143 without line 143: the audit log is kept
clean_reset_keep_log(x) ==
    Return([x EXCEPT !.removed = @ \o RemovalCandidates(x.all_out_messages),
                     !.queued_out_messages = <<>>,
                     !.last_stageout_time = None])

\* lines 129-143 of clean(): the loop over the audit log and the reset of the
\* fields. The loop writes "Removing es premerge file" for each candidate;
\* the os.remove() of line 138 is commented out, so nothing is unlinked and
\* the handler of lines 139-140 has nothing to catch.
clean_reset(x) ==
    Return([x EXCEPT !.removed = @ \o RemovalCandidates(x.all_out_messages),
                     !.queued_out_messages = <<>>,
                     !.last_stageout_time = None,
                     !.all_out_messages = <<>>])

\* line 150, reached when self.proc is None or the worker is no longer alive
stop_communicator(x, f) ==
    IF f = "stop_communicator" THEN Raise(x) ELSE Return(x)

\* clean() on an executor whose self.proc is None: lines 129-143, then 150
clean_no_proc(x, f) == stop_communicator(clean_reset(x), f)

(* ------------------------- initial state ------------------------------ *)

NoMessage == [id |-> 0, status |-> "none", output |-> 0]

\* The record kept of the last method call: its arguments, the time, the
\* length of the pending queue before it, the update_events() calls and the
\* removals it announced (x: the world before, y: after), and the call
\* before it with whether that one raised.
Call(op, force, msg, x, y) ==
    [op       |-> op,
     force    |-> force,
     msg      |-> msg,
     t        |-> now,
     qlen     |-> Len(x.queued_out_messages),
     sends    |-> Len(y.sent) - Len(x.sent),
     removals |-> Len(y.removed) - Len(x.removed),
     prior    |-> [op |-> call.op, raised |-> x.raised]]

\* The flush cycle: how many messages of each kind handle_out_message() was
\* given since the last draining stageout_es() or clean(), how many failure
\* reports it made, and, once a stageout_es() has drained the queue, how many
\* success batches that call sent; flushed_at is the time of the last flush
\* that was transmitted since the last clean().
NewCycle(at) ==
    [finished |-> 0, failed |-> 0, other |-> 0, failreports |-> 0,
     flushed |-> FALSE, batches |-> 0, flushed_at |-> at]

CycleAfterHandle(c, message, x, y) ==
    LET b == IF c.flushed THEN NewCycle(c.flushed_at) ELSE c
    IN  [b EXCEPT
           !.finished = @ + (IF message.status = "finished" THEN 1 ELSE 0),
           !.failed   = @ + (IF message.status \in FailureStatuses THEN 1 ELSE 0),
           !.other    = @ + (IF message.status \notin FailureStatuses \cup {"finished"}
                             THEN 1 ELSE 0),
           !.failreports = @ + (Len(y.sent) - Len(x.sent))]

CycleAfterStageout(c, x, y, t) ==
    IF Len(y.queued_out_messages) < Len(x.queued_out_messages)
    THEN [c EXCEPT !.flushed = TRUE,
                   !.batches = Len(y.sent) - Len(x.sent),
                   !.flushed_at = IF y.raised THEN @ ELSE Some(t)]
    ELSE c

\* __init__ (lines 35-44)
Init ==
    /\ w = InitWorld
    /\ proc = None
    /\ exit_code = None
    /\ pc = "start"
    /\ ret = "normal"
    /\ payload = "unbound"
    /\ iteration = 0
    /\ worker = [hooked |-> FALSE, alive |-> FALSE, status |-> None, stopped |-> FALSE]
    /\ stop = FALSE
    /\ now = 0
    /\ nmsgs = 0
    /\ nfaults = 0
    /\ trace = <<>>
    /\ call = [op |-> "__init__", force |-> FALSE, msg |-> NoMessage, t |-> 0,
               qlen |-> 0, sends |-> 0, removals |-> 0,
               prior |-> [op |-> "none", raised |-> FALSE]]
    /\ cycle = NewCycle(None)
    /\ hpc = "idle"
    /\ spc = "idle"
    /\ out_messages = <<>>

HandleFaults == {"none", "update_events"}

StageoutFaults == {"none", "update_events"}

CleanFaults == {"none", "stop_communicator"}

\* a collaborator call may raise while the fault budget lasts
MayRaise(f) == f = "none" \/ nfaults < MaxFaults

Counted(x) == IF x.raised THEN nfaults + 1 ELSE nfaults

(* ------------- ApiSpec: the methods called one by one ------------------ *)

ApiHandleOutMessage ==
    /\ nmsgs < MaxMsgs
    /\ \E k \in MessageKinds, f \in HandleFaults :
          LET message == Message(nmsgs + 1, k)
              y == handle_out_message(w, message, f)
          IN  /\ w' = y
              /\ call' = Call("handle_out_message", FALSE, message, w, y)
              /\ cycle' = CycleAfterHandle(cycle, message, w, y)
    /\ nmsgs' = nmsgs + 1
    /\ UNCHANGED <<proc, exit_code, pc, ret, payload, iteration, worker, stop,
                   now, nfaults, trace>>
    /\ UNCHANGED threads

ApiStageoutEs ==
    /\ \E force \in BOOLEAN, f \in StageoutFaults :
          LET y == stageout_es(w, force, now, f)
          IN  /\ w' = y
              /\ call' = Call("stageout_es", force, NoMessage, w, y)
              /\ cycle' = CycleAfterStageout(cycle, w, y, now)
    /\ UNCHANGED <<proc, exit_code, pc, ret, payload, iteration, worker, stop,
                   now, nmsgs, nfaults, trace>>
    /\ UNCHANGED threads

ApiClean ==
    /\ \E f \in CleanFaults :
          LET y == clean_no_proc(w, f)
          IN  /\ w' = y
              /\ call' = Call("clean", FALSE, NoMessage, w, y)
              /\ cycle' = NewCycle(None)
    /\ UNCHANGED <<proc, exit_code, pc, ret, payload, iteration, worker, stop,
                   now, nmsgs, nfaults, trace>>
    /\ UNCHANGED threads

\* a second passes between two calls
Tick ==
    /\ now < MaxTime
    /\ now' = now + 1
    /\ UNCHANGED <<w, proc, exit_code, pc, ret, payload, iteration, worker, stop,
                   nmsgs, nfaults, trace, call, cycle>>
    /\ UNCHANGED threads

ApiNext == ApiHandleOutMessage \/ ApiStageoutEs \/ ApiClean \/ Tick

ApiSpec == Init /\ [][ApiNext]_vars

(* ------------------- Spec: one execution of run() --------------------- *)

PayloadModes == {"set", "retrieve", "none"}

Ended == pc \in {"done", "propagated"}

\* an exception raised inside the try block of run() (lines 156-206)
Throw(bad) ==
    /\ pc' = "except"
    /\ nfaults' = IF bad THEN nfaults + 1 ELSE nfaults

\* lines 157-163: the payload is pre-set, retrieved, or neither (the error
\* log of line 163, "no_payload" in the trace)
RunAcquirePayload ==
    /\ pc = "start"
    /\ \E mode \in PayloadModes, bad \in BOOLEAN :
          /\ bad => (nfaults < MaxFaults /\ mode # "none")
          /\ IF bad
             THEN Throw(TRUE) /\ UNCHANGED payload
             ELSE /\ payload' = IF mode = "none" THEN "unbound" ELSE "payload"
                  /\ pc' = "get_job"
                  /\ UNCHANGED nfaults
          /\ trace' = Append(trace, IF mode = "none" THEN "no_payload" ELSE "payload")
    /\ UNCHANGED <<w, proc, exit_code, ret, iteration, worker, stop, now, nmsgs, call, cycle>>
    /\ UNCHANGED threads

\* lines 165-167: formatting an unbound `payload` raises UnboundLocalError
RunGetJob ==
    /\ pc = "get_job"
    /\ IF payload = "unbound"
       THEN Throw(FALSE)
       ELSE pc' = "new_proc" /\ UNCHANGED nfaults
    /\ UNCHANGED <<w, proc, exit_code, ret, payload, iteration, worker, stop, now,
                   nmsgs, trace, call, cycle>>
    /\ UNCHANGED threads

\* lines 169-172
RunNewProc ==
    /\ pc = "new_proc"
    /\ \E bad \in BOOLEAN :
          /\ bad => nfaults < MaxFaults
          /\ IF bad
             THEN Throw(TRUE) /\ UNCHANGED proc
             ELSE proc' = Some("ESProcess") /\ pc' = "hooks" /\ UNCHANGED nfaults
    /\ UNCHANGED <<w, exit_code, ret, payload, iteration, worker, stop, now, nmsgs,
                   trace, call, cycle>>
    /\ UNCHANGED threads

\* lines 174-175
RunSetHooks ==
    /\ pc = "hooks"
    /\ \E bad \in BOOLEAN :
          /\ bad => nfaults < MaxFaults
          /\ IF bad
             THEN Throw(TRUE) /\ UNCHANGED worker
             ELSE /\ worker' = [worker EXCEPT !.hooked = TRUE]
                  /\ pc' = "proc_start"
                  /\ UNCHANGED nfaults
    /\ trace' = Append(trace, "hooks")
    /\ UNCHANGED <<w, proc, exit_code, ret, payload, iteration, stop, now, nmsgs, call, cycle>>
    /\ UNCHANGED threads

\* lines 177-185
RunProcStart ==
    /\ pc = "proc_start"
    /\ \E bad \in BOOLEAN :
          /\ bad => nfaults < MaxFaults
          /\ IF bad
             THEN Throw(TRUE) /\ UNCHANGED <<worker, iteration>>
             ELSE /\ worker' = [worker EXCEPT !.alive = TRUE]
                  /\ iteration' = 0
                  /\ pc' = "loop"
                  /\ UNCHANGED nfaults
    /\ trace' = Append(trace, "proc.start")
    /\ UNCHANGED <<w, proc, exit_code, ret, payload, stop, now, nmsgs, call, cycle>>
    /\ UNCHANGED threads

\* lines 186-187: while proc.is_alive(): iteration += 1
RunLoopTest ==
    /\ pc = "loop"
    /\ \E bad \in BOOLEAN :
          /\ bad => nfaults < MaxFaults
          /\ IF bad
             THEN Throw(TRUE) /\ UNCHANGED <<iteration, trace>>
             ELSE IF worker.alive
                  THEN /\ iteration < MaxIter
                       /\ iteration' = iteration + 1
                       /\ pc' = "check_stop"
                       /\ trace' = Append(trace, "tick")
                       /\ UNCHANGED nfaults
                  ELSE /\ pc' = "drain"
                       /\ UNCHANGED <<iteration, nfaults, trace>>
    /\ UNCHANGED <<w, proc, exit_code, ret, payload, worker, stop, now, nmsgs, call, cycle>>
    /\ UNCHANGED threads

\* lines 188-191 without the `break`: the tick goes on after proc.stop()
RunCheckStopNoBreak ==
    /\ pc = "check_stop"
    /\ \E bad \in BOOLEAN :
          /\ bad => nfaults < MaxFaults
          /\ IF bad
             THEN Throw(TRUE) /\ UNCHANGED worker
             ELSE /\ worker' = [worker EXCEPT !.stopped = stop]
                  /\ pc' = "tick_stageout"
                  /\ UNCHANGED nfaults
    /\ trace' = IF stop THEN Append(Append(trace, "is_stop"), "proc.stop") ELSE trace
    /\ UNCHANGED <<w, proc, exit_code, ret, payload, iteration, stop, now, nmsgs,
                   call, cycle>>
    /\ UNCHANGED threads

\* lines 188-191: if self.is_stop(): proc.stop(); break
RunCheckStop ==
    /\ pc = "check_stop"
    /\ \E bad \in BOOLEAN :
          /\ bad => nfaults < MaxFaults
          /\ IF ~stop
             THEN IF bad
                  THEN Throw(TRUE) /\ UNCHANGED <<worker, trace>>
                  ELSE /\ pc' = "tick_stageout"
                       /\ UNCHANGED <<worker, nfaults, trace>>
             ELSE /\ trace' = Append(Append(trace, "is_stop"), "proc.stop")
                  /\ IF bad
                     THEN Throw(TRUE) /\ UNCHANGED worker
                     ELSE /\ worker' = [worker EXCEPT !.stopped = TRUE]
                          /\ pc' = "drain"
                          /\ UNCHANGED nfaults
    /\ UNCHANGED <<w, proc, exit_code, ret, payload, iteration, stop, now, nmsgs, call, cycle>>
    /\ UNCHANGED threads

\* line 192: self.stageout_es()
RunTickStageout ==
    /\ pc = "tick_stageout"
    /\ \E f \in StageoutFaults :
          /\ MayRaise(f)
          /\ LET x == stageout_es(w, FALSE, now, f)
             IN  /\ w' = x
                 /\ nfaults' = Counted(x)
                 /\ pc' = IF x.raised THEN "except" ELSE "tick_poll"
                 /\ call' = Call("stageout_es", FALSE, NoMessage, w, x)
                 /\ cycle' = CycleAfterStageout(cycle, w, x, now)
    /\ trace' = Append(trace, "stageout_es")
    /\ UNCHANGED <<proc, exit_code, ret, payload, iteration, worker, stop, now, nmsgs>>
    /\ UNCHANGED threads

\* lines 194-197: exit_code = proc.poll(); the heartbeat log; time.sleep(5)
RunTickPoll ==
    /\ pc = "tick_poll"
    /\ \E bad \in BOOLEAN :
          /\ bad => nfaults < MaxFaults
          /\ IF bad
             THEN Throw(TRUE) /\ UNCHANGED now
             ELSE pc' = "loop" /\ now' = now + PollSleep /\ UNCHANGED nfaults
    /\ trace' = Append(trace, "poll")
    /\ UNCHANGED <<w, proc, exit_code, ret, payload, iteration, worker, stop,
                   nmsgs, call, cycle>>
    /\ UNCHANGED threads

\* lines 199-201 with `if` for `while`: one sleep, then on
RunDrainWaitOnce ==
    /\ pc = "drain"
    /\ \E bad \in BOOLEAN :
          /\ bad => nfaults < MaxFaults
          /\ IF bad
             THEN Throw(TRUE) /\ UNCHANGED trace
             ELSE /\ pc' = "final_stageout"
                  /\ trace' = IF worker.alive THEN trace ELSE Append(trace, "not_alive")
                  /\ UNCHANGED nfaults
    /\ UNCHANGED <<w, proc, exit_code, ret, payload, iteration, worker, stop, now,
                   nmsgs, call, cycle>>
    /\ UNCHANGED threads

\* lines 199-201: while proc.is_alive(): time.sleep(1)
RunDrainWait ==
    /\ pc = "drain"
    /\ \E bad \in BOOLEAN :
          /\ bad => nfaults < MaxFaults
          /\ IF bad
             THEN Throw(TRUE) /\ UNCHANGED trace
             ELSE IF worker.alive
                  THEN UNCHANGED <<pc, nfaults, trace>>
                  ELSE /\ pc' = "final_stageout"
                       /\ trace' = Append(trace, "not_alive")
                       /\ UNCHANGED nfaults
    /\ UNCHANGED <<w, proc, exit_code, ret, payload, iteration, worker, stop, now,
                   nmsgs, call, cycle>>
    /\ UNCHANGED threads

\* lines 203-204: self.stageout_es(force=True), then self.clean() is entered
RunFinalStageout ==
    /\ pc = "final_stageout"
    /\ \E f \in StageoutFaults :
          /\ MayRaise(f)
          /\ LET x == stageout_es(w, TRUE, now, f)
             IN  /\ w' = x
                 /\ nfaults' = Counted(x)
                 /\ pc' = IF x.raised THEN "except" ELSE "clean"
                 /\ call' = Call("stageout_es", TRUE, NoMessage, w, x)
                 /\ cycle' = CycleAfterStageout(cycle, w, x, now)
    /\ ret' = "normal"
    /\ trace' = Append(trace, "stageout_es(force)")
    /\ UNCHANGED <<proc, exit_code, payload, iteration, worker, stop, now, nmsgs>>
    /\ UNCHANGED threads

\* an exception raised inside clean() (lines 125-150): back in the try block it
\* is caught by line 208, inside the handler it leaves run()
CleanRaise ==
    /\ pc' = IF ret = "normal" THEN "except" ELSE "propagated"
    /\ nfaults' = nfaults + 1

\* clean(), lines 129-143, and the test of line 145
CleanReset ==
    /\ pc = "clean"
    /\ w' = clean_reset(w)
    /\ call' = Call("clean", FALSE, NoMessage, w, clean_reset(w))
    /\ cycle' = NewCycle(None)
    /\ trace' = Append(trace, "clean")
    /\ pc' = IF proc # None THEN "clean_stop" ELSE "clean_comm"
    /\ UNCHANGED <<proc, exit_code, ret, payload, iteration, worker, stop, now,
                   nmsgs, nfaults>>
    /\ UNCHANGED threads

\* clean(), line 146: self.proc.stop()
CleanProcStop ==
    /\ pc = "clean_stop"
    /\ \E bad \in BOOLEAN :
          /\ bad => nfaults < MaxFaults
          /\ IF bad
             THEN CleanRaise /\ UNCHANGED worker
             ELSE /\ worker' = [worker EXCEPT !.stopped = TRUE]
                  /\ pc' = "clean_wait"
                  /\ UNCHANGED nfaults
    /\ trace' = Append(trace, "proc.stop")
    /\ UNCHANGED <<w, proc, exit_code, ret, payload, iteration, stop, now, nmsgs, call, cycle>>
    /\ UNCHANGED threads

\* clean(), lines 147-148: while self.proc.is_alive(): time.sleep(0.1)
CleanWait ==
    /\ pc = "clean_wait"
    /\ \E bad \in BOOLEAN :
          /\ bad => nfaults < MaxFaults
          /\ IF bad
             THEN CleanRaise /\ UNCHANGED trace
             ELSE IF worker.alive
                  THEN UNCHANGED <<pc, nfaults, trace>>
                  ELSE /\ pc' = "clean_comm"
                       /\ trace' = Append(trace, "not_alive")
                       /\ UNCHANGED nfaults
    /\ UNCHANGED <<w, proc, exit_code, ret, payload, iteration, worker, stop, now,
                   nmsgs, call, cycle>>
    /\ UNCHANGED threads

\* clean(), line 150: self.stop_communicator(); then clean() returns, to line
\* 206 of the try block or to line 211 of the handler
CleanStopCommunicator ==
    /\ pc = "clean_comm"
    /\ \E f \in {"none", "stop_communicator"} :
          /\ MayRaise(f)
          /\ LET x == stop_communicator(w, f)
             IN  /\ w' = x
                 /\ IF x.raised
                    THEN CleanRaise /\ UNCHANGED exit_code
                    ELSE /\ UNCHANGED nfaults
                         /\ IF ret = "normal"
                            THEN pc' = "final_poll" /\ UNCHANGED exit_code
                            ELSE pc' = "done" /\ exit_code' = Some(SentinelExitCode)
    /\ trace' = Append(trace, "stop_communicator")
    /\ UNCHANGED <<proc, ret, payload, iteration, worker, stop, now, nmsgs, call, cycle>>
    /\ UNCHANGED threads

\* line 206 storing 0 whatever poll() returns
RunFinalPollZero ==
    /\ pc = "final_poll"
    /\ \E bad \in BOOLEAN :
          /\ bad => nfaults < MaxFaults
          /\ IF bad
             THEN Throw(TRUE) /\ UNCHANGED exit_code
             ELSE /\ exit_code' = Some(0)
                  /\ pc' = "done"
                  /\ UNCHANGED nfaults
    /\ trace' = Append(trace, "poll")
    /\ UNCHANGED <<w, proc, ret, payload, iteration, worker, stop, now, nmsgs, call, cycle>>
    /\ UNCHANGED threads

\* line 206: self.exit_code = proc.poll(), then line 212
RunFinalPoll ==
    /\ pc = "final_poll"
    /\ \E bad \in BOOLEAN :
          /\ bad => nfaults < MaxFaults
          /\ IF bad
             THEN Throw(TRUE) /\ UNCHANGED exit_code
             ELSE /\ exit_code' = worker.status
                  /\ pc' = "done"
                  /\ UNCHANGED nfaults
    /\ trace' = Append(trace, "poll")
    /\ UNCHANGED <<w, proc, ret, payload, iteration, worker, stop, now, nmsgs, call, cycle>>
    /\ UNCHANGED threads

\* lines 208-210: the handler logs the exception and calls self.clean()
RunExcept ==
    /\ pc = "except"
    /\ pc' = "clean"
    /\ ret' = "handler"
    /\ trace' = Append(trace, "except")
    /\ UNCHANGED <<w, proc, exit_code, payload, iteration, worker, stop, now, nmsgs,
                   nfaults, call, cycle>>
    /\ UNCHANGED threads

(* the environment of run() *)

\* the worker process exits, by itself or after stop()
WorkerExit ==
    /\ worker.alive
    /\ \E status \in WorkerExitStatus :
          worker' = [worker EXCEPT !.alive = FALSE, !.status = Some(status)]
    /\ UNCHANGED <<w, proc, exit_code, pc, ret, payload, iteration, stop, now, nmsgs,
                   nfaults, trace, call, cycle>>
    /\ UNCHANGED threads

\* the external stop signal is raised
SetStop ==
    /\ ~stop
    /\ ~Ended
    /\ stop' = TRUE
    /\ UNCHANGED <<w, proc, exit_code, pc, ret, payload, iteration, worker, now,
                   nmsgs, nfaults, trace, call, cycle>>
    /\ UNCHANGED threads

\* the notification thread of the worker handle calls the hook registered at
\* line 175; an exception of the hook stays in that thread
Deliver ==
    /\ worker.hooked
    /\ worker.alive \/ worker.status # None
    /\ ~Ended
    /\ nmsgs < MaxMsgs
    /\ \E k \in MessageKinds, f \in HandleFaults :
          /\ MayRaise(f)
          /\ LET message == Message(nmsgs + 1, k)
                 x == handle_out_message(w, message, f)
             IN  /\ w' = x
                 /\ nfaults' = Counted(x)
                 /\ call' = Call("handle_out_message", FALSE, message, w, x)
                 /\ cycle' = CycleAfterHandle(cycle, message, w, x)
    /\ nmsgs' = nmsgs + 1
    /\ UNCHANGED <<proc, exit_code, pc, ret, payload, iteration, worker, stop, now,
                   trace>>
    /\ UNCHANGED threads

RunStep ==
    \/ RunAcquirePayload \/ RunGetJob \/ RunNewProc \/ RunSetHooks \/ RunProcStart
    \/ RunLoopTest \/ RunCheckStop \/ RunTickStageout \/ RunTickPoll
    \/ RunDrainWait \/ RunFinalStageout \/ RunFinalPoll \/ RunExcept
    \/ CleanReset \/ CleanProcStop \/ CleanWait \/ CleanStopCommunicator

Next == RunStep \/ WorkerExit \/ SetStop \/ Deliver

Spec == Init /\ [][Next]_vars

\* run() with its thread always scheduled again, no call blocking, and a
\* worker process that does not stay alive for ever
FairSpec == Spec /\ WF_vars(RunStep) /\ WF_vars(WorkerExit)

(* ---- ThreadSpec: handle_out_message() against stageout_es() ---------- *)
(* The notification thread of the worker handle runs handle_out_message()  *)
(* while the supervisor thread runs stageout_es(); each list operation     *)
(* (append, len, pop) is one step, as the interpreter lock makes it.       *)

observers == <<proc, exit_code, pc, ret, payload, iteration, worker, stop, now,
               trace, call, cycle>>

\* line 122 emptying the list once it has taken its last element
PopAndClear(q) == [taken |-> q[Len(q)], left |-> <<>>]

\* line 122: list.pop() takes the last element off the list
Pop(q) == [taken |-> q[Len(q)], left |-> SubSeq(q, 1, Len(q) - 1)]

\* lines 101-105: the message is appended to the audit log
HookAppend ==
    /\ hpc = "idle"
    /\ nmsgs < MaxMsgs
    /\ \E k \in MessageKinds :
          w' = [w EXCEPT !.all_out_messages = Append(@, Message(nmsgs + 1, k))]
    /\ nmsgs' = nmsgs + 1
    /\ hpc' = "classify"
    /\ UNCHANGED <<nfaults, spc, out_messages, observers>>

\* lines 107-110: the failure report, or the append to the pending queue
HookClassify ==
    /\ hpc = "classify"
    /\ LET message == w.all_out_messages[Len(w.all_out_messages)]
       IN  IF IsFailure(message)
           THEN \E f \in HandleFaults :
                   /\ MayRaise(f)
                   /\ w' = update_failed_event_ranges(w, <<message>>, f)
                   /\ nfaults' = Counted(w')
           ELSE /\ w' = Return([w EXCEPT !.queued_out_messages = Append(@, message)])
                /\ UNCHANGED nfaults
    /\ hpc' = "idle"
    /\ UNCHANGED <<nmsgs, spc, out_messages, observers>>

\* lines 117-120: the two tests, and out_messages = []
StageoutTest ==
    /\ spc = "idle"
    /\ \E force \in BOOLEAN :
          IF Len(w.queued_out_messages) > 0
             /\ ShouldStageout(force, w.last_stageout_time, now)
          THEN spc' = "loop" /\ out_messages' = <<>>
          ELSE UNCHANGED <<spc, out_messages>>
    /\ UNCHANGED <<w, nmsgs, nfaults, hpc, observers>>

\* line 121: while len(self.__queued_out_messages) > 0
StageoutLoopTest ==
    /\ spc = "loop"
    /\ spc' = IF Len(w.queued_out_messages) > 0 THEN "pop" ELSE "send"
    /\ UNCHANGED <<w, nmsgs, nfaults, hpc, out_messages, observers>>

\* line 122: out_messages.append(self.__queued_out_messages.pop())
StageoutPop ==
    /\ spc = "pop"
    /\ LET d == Pop(w.queued_out_messages)
       IN  /\ out_messages' = Append(out_messages, d.taken)
           /\ w' = [w EXCEPT !.queued_out_messages = d.left]
    /\ spc' = "loop"
    /\ UNCHANGED <<nmsgs, nfaults, hpc, observers>>

\* line 123: self.update_finished_event_ranges(out_messages)
StageoutSend ==
    /\ spc = "send"
    /\ \E f \in StageoutFaults :
          /\ MayRaise(f)
          /\ w' = update_finished_event_ranges(w, out_messages, f)
          /\ nfaults' = Counted(w')
    /\ spc' = "idle"
    /\ out_messages' = <<>>
    /\ UNCHANGED <<nmsgs, hpc, observers>>

ThreadNext ==
    \/ HookAppend \/ HookClassify
    \/ StageoutTest \/ StageoutLoopTest \/ StageoutPop \/ StageoutSend

ThreadSpec == Init /\ [][ThreadNext]_vars

(* ---- ReportSpec: the two reporting methods called with a list -------- *)

\* the messages numbered from + 1 .. from + Len(kinds), of the given kinds
Messages(from, kinds) == [i \in 1..Len(kinds) |-> Message(from + i, kinds[i])]

\* lines 75-90, called with one to MaxMsgs messages
ApiUpdateFailedEventRanges ==
    /\ nmsgs < MaxMsgs
    /\ \E k \in 1..MaxMsgs, f \in HandleFaults :
          \E kinds \in [1..k -> MessageKinds] :
             LET y == update_failed_event_ranges(w, Messages(nmsgs, kinds), f)
             IN  /\ w' = y
                 /\ call' = Call("update_failed_event_ranges", FALSE, NoMessage, w, y)
                 /\ nmsgs' = nmsgs + k
    /\ UNCHANGED <<proc, exit_code, pc, ret, payload, iteration, worker, stop,
                   now, nfaults, trace, cycle, threads>>

\* lines 55-73, called with no message or with up to MaxMsgs messages
ApiUpdateFinishedEventRanges ==
    /\ nmsgs < MaxMsgs
    /\ \E k \in 0..MaxMsgs, f \in StageoutFaults :
          \E kinds \in [1..k -> MessageKinds] :
             LET y == update_finished_event_ranges(w, Messages(nmsgs, kinds), f)
             IN  /\ w' = y
                 /\ call' = Call("update_finished_event_ranges", FALSE, NoMessage, w, y)
                 /\ nmsgs' = nmsgs + k
    /\ UNCHANGED <<proc, exit_code, pc, ret, payload, iteration, worker, stop,
                   now, nfaults, trace, cycle, threads>>

ReportNext == ApiUpdateFailedEventRanges \/ ApiUpdateFinishedEventRanges

ReportSpec == Init /\ [][ReportNext]_vars

(* ======================= the claims =================================== *)

\* what the job-update interface has seen
SuccessReports == {i \in 1..Len(w.sent) : w.sent[i].report.version = 1}

FailureReports == {i \in 1..Len(w.sent) : w.sent[i].report.version = 0}

\* the entries of success batch i
BatchRanges(i) == w.sent[i].report.eventRanges[1].eventRanges

\* the entries of all success batches (of the transmitted ones) for message id
BatchEntries(id) ==
    {<<i, j>> \in SuccessReports \X (1..nmsgs) :
        j <= Len(BatchRanges(i)) /\ BatchRanges(i)[j].eventRangeID = id}

TransmittedEntries(id) == {e \in BatchEntries(id) : w.sent[e[1]].ok}

\* the failure reports that name message id
FailureEntries(id) ==
    {i \in FailureReports :
        \E j \in 1..Len(w.sent[i].report.eventRanges) :
            w.sent[i].report.eventRanges[j].eventRangeID = id}

LastSent == w.sent[Len(w.sent)]

StopObserved == \E i \in 1..Len(trace) : trace[i] = "is_stop"

HadException == \E i \in 1..Len(trace) : trace[i] = "except"

(* C1: of the messages handle_out_message() was given since the last flush
   (or clean()), N 'finished' and M 'failed'/'fatal' in any order, every
   failed/fatal one has caused one failure report, and the stageout_es() that
   drains the queue sends one success batch, with numEvents = N and N entries. *)
C1_BatchHoldsFinishedFailuresReportedEach ==
    /\ cycle.failreports = cycle.failed
    /\ (cycle.flushed /\ cycle.other = 0) =>
          /\ cycle.batches = 1
          /\ LastSent.report.version = 1
          /\ LastSent.report.eventRanges[1].esOutput.numEvents = cycle.finished
          /\ Len(LastSent.report.eventRanges[1].eventRanges) = cycle.finished

C1_Witness ==
    /\ call.op = "stageout_es"
    /\ cycle.flushed
    /\ cycle.finished >= 1
    /\ cycle.failed >= 1
    /\ cycle.other = 0
    /\ cycle.finished + cycle.failed = MaxMsgs

(* C2: a flush transmitted at time t leaves the last-flush timestamp at t; a
   later non-forced stageout_es() with a non-empty queue no later than
   t + es_stageout_gap sends nothing and leaves the queue alone; a forced one
   with a non-empty queue sends. *)
C2_ThrottleEnforced ==
    [][ (now' = now /\ call'.op = "stageout_es") =>
          /\ (Len(w'.sent) > Len(w.sent) /\ ~w'.raised) =>
                w'.last_stageout_time = Some(now)
          /\ (/\ ~call'.force
              /\ w.queued_out_messages # <<>>
              /\ cycle.flushed_at # None
              /\ now <= cycle.flushed_at[1] + EsStageoutGap) =>
                /\ w'.sent = w.sent
                /\ w'.queued_out_messages = w.queued_out_messages
          /\ (call'.force /\ w.queued_out_messages # <<>>) =>
                Len(w'.sent) = Len(w.sent) + 1 ]_vars

(* C3: when run() has made its forced final flush without an exception, the
   pending queue is empty and every 'finished' message received so far is in
   exactly one transmitted success batch; no message is ever in two. *)
C3_FinalFlushTransmitsEachOnce ==
    /\ \A id \in 1..nmsgs : Cardinality(BatchEntries(id)) <= 1
    /\ (pc = "clean" /\ ret = "normal" /\ call.op = "stageout_es" /\ call.force) =>
          /\ w.queued_out_messages = <<>>
          /\ \A i \in 1..Len(w.all_out_messages) :
                w.all_out_messages[i].status = "finished" =>
                   Cardinality(TransmittedEntries(w.all_out_messages[i].id)) = 1

C3_Witness ==
    /\ pc = "clean" /\ ret = "normal"
    /\ call.op = "stageout_es" /\ call.force
    /\ StopObserved
    /\ call.qlen = MaxMsgs
    /\ call.sends = 1
    /\ \A i \in 1..Len(w.all_out_messages) : w.all_out_messages[i].status = "finished"

\* the calls run() made after it saw the stop signal
AfterStop ==
    LET k == CHOOSE i \in 1..Len(trace) : trace[i] = "is_stop"
    IN  SubSeq(trace, k + 1, Len(trace))

Occurs(event, s) == \E i \in 1..Len(s) : s[i] = event

StopDrainOrder == <<"proc.stop", "not_alive", "stageout_es(force)", "clean">>

(* C4 as stated, for the runs that return: on every run in which the poll
   loop observes the stop signal, the calls that follow are worker stop(), the
   wait until is_alive() is false, stageout_es(force=True) and clean(). *)
C4_StopAlwaysFlushesAndCleans ==
    (StopObserved /\ pc = "done") =>
        /\ Len(AfterStop) >= 4
        /\ SubSeq(AfterStop, 1, 4) = StopDrainOrder

(* C4 as amended: once the poll loop has observed the stop signal, worker
   stop() is the next call, there is no non-forced flush and no further tick,
   and poll() is called only after clean(); a forced flush comes third, after
   stop() and the wait; when run() ends, clean() has been invoked; and when no
   exception was raised the order is stop(), wait, forced flush, clean(), and
   run() returns. An exception raised by stop() or by the wait skips the
   forced flush and goes to clean() through the handler. *)
C4_StopDrainsUnlessException ==
    StopObserved =>
        /\ AfterStop[1] = "proc.stop"
        /\ ~Occurs("stageout_es", AfterStop)
        /\ ~Occurs("tick", AfterStop)
        /\ \A j \in 1..Len(AfterStop) :
              /\ AfterStop[j] = "poll" => Occurs("clean", SubSeq(AfterStop, 1, j))
              /\ AfterStop[j] = "stageout_es(force)" =>
                    j = 3 /\ AfterStop[2] = "not_alive"
        /\ Ended => Occurs("clean", AfterStop)
        /\ (Ended /\ ~HadException) =>
              /\ pc = "done"
              /\ SubSeq(AfterStop, 1, 4) = StopDrainOrder

C4_Witness ==
    /\ pc = "done"
    /\ StopObserved
    /\ ~HadException
    /\ Cardinality(SuccessReports) = 1

(* C5: when a step of run() has raised, clean() is invoked exactly once after
   the exception and the final exit_code is the sentinel -1. *)
C5_ExceptionCleansOnceAndSetsSentinel ==
    (Ended /\ HadException) =>
        LET k == CHOOSE i \in 1..Len(trace) : trace[i] = "except"
        IN  /\ Cardinality({i \in k..Len(trace) : trace[i] = "clean"}) = 1
            /\ exit_code = Some(SentinelExitCode)

(* C6: run() never lets an exception out to its caller. *)
C6_RunNeverPropagates == pc # "propagated"

\* the entries of the success batches update_events() accepted
TransmittedCount ==
    LET RECURSIVE Sum(_)
        Sum(n) == IF n = 0 THEN 0
                  ELSE Sum(n - 1)
                       + (IF n \in SuccessReports /\ w.sent[n].ok
                          THEN Len(BatchRanges(n)) ELSE 0)
    IN  Sum(Len(w.sent))

(* C7: when update_events() raises inside a flush, the messages of the batch
   are still in the pending queue, and job.nevents counts only the batches
   that were transmitted. *)
C7_FailedBatchStaysQueued ==
    /\ w.nevents = TransmittedCount
    /\ (call.op = "stageout_es" /\ call.sends = 1 /\ w.raised) =>
          Len(w.queued_out_messages) = call.qlen

(* C8: a 'failed' or 'fatal' message is reported by one failure report made
   during the handle_out_message() call that receives it; it does not enter
   the pending queue, no other failure report names it and no success batch
   holds it. *)
C8_FailureReportedAtOnceNeverQueued ==
    /\ (call.op = "handle_out_message" /\ call.msg.status \in FailureStatuses) =>
          /\ call.sends = 1
          /\ LastSent.report =
                [version |-> 0,
                 eventRanges |-> << [errorCode    |-> ErrorCodePlaceholder,
                                     eventRangeID |-> call.msg.id,
                                     eventStatus  |-> call.msg.status] >>]
          /\ Len(w.queued_out_messages) = call.qlen
    /\ \A i \in 1..Len(w.queued_out_messages) :
          w.queued_out_messages[i].status \notin FailureStatuses
    /\ \A id \in 1..nmsgs :
          FailureEntries(id) # {} =>
              Cardinality(FailureEntries(id)) = 1 /\ BatchEntries(id) = {}

C8_Witness ==
    /\ call.op = "handle_out_message"
    /\ call.msg.status = "fatal"
    /\ call.sends = 1
    /\ call.qlen >= 1
    /\ w.queued_out_messages[1].status = "finished"

(* C9: stageout_es() on an empty pending queue, forced or not, calls
   update_events() not at all and leaves the pending queue, the audit log, the
   last-flush timestamp and job.nevents as they were. *)
C9_StageoutOnEmptyQueueIsNoOp ==
    [][ (now' = now /\ call'.op = "stageout_es" /\ w.queued_out_messages = <<>>) =>
          /\ w'.sent = w.sent
          /\ w'.queued_out_messages = <<>>
          /\ w'.all_out_messages = w.all_out_messages
          /\ w'.last_stageout_time = w.last_stageout_time
          /\ w'.nevents = w.nevents ]_vars

C9_Witness ==
    /\ call.op = "stageout_es"
    /\ call.force
    /\ call.qlen = 0
    /\ call.sends = 0
    /\ w.all_out_messages # <<>>
    /\ w.nevents > 0

(* C10: a clean() called right after a clean(), with no message in between,
   makes no removal attempt and leaves everything as the first call left it:
   pending queue and audit log empty, last-flush timestamp unset. *)
C10_SecondCleanChangesNothing ==
    [][ (now' = now /\ call'.op = "clean" /\ call.op = "clean") =>
          /\ w'.removed = w.removed
          /\ w'.unlinked = w.unlinked
          /\ w'.sent = w.sent
          /\ w'.nevents = w.nevents
          /\ w'.queued_out_messages = <<>> /\ w.queued_out_messages = <<>>
          /\ w'.all_out_messages = <<>> /\ w.all_out_messages = <<>>
          /\ w'.last_stageout_time = None /\ w.last_stageout_time = None ]_vars

C10_Witness ==
    /\ call.op = "clean"
    /\ call.prior.op = "clean"
    /\ ~call.prior.raised
    /\ ~w.raised
    /\ call.removals = 0
    /\ w.removed # <<>>

\* the os.remove() calls made for path p among the calls `made`
AttemptsFor(p, made) == Cardinality({i \in 1..Len(made) : made[i] = p})

(* C11: a clean() makes one os.remove() call for the output path of every
   'finished' message of the audit log and none for a 'failed' or 'fatal'
   one, and it leaves the pending queue and the audit log empty and the
   last-flush timestamp unset. *)
C11_CleanRemovesEachFinishedOutputOnce ==
    [][ (now' = now /\ call'.op = "clean") =>
          LET made == SubSeq(w'.unlinked, Len(w.unlinked) + 1, Len(w'.unlinked))
          IN  /\ \A i \in 1..Len(w.all_out_messages) :
                    LET msg == w.all_out_messages[i]
                    IN  /\ msg.status = "finished" => AttemptsFor(msg.output, made) = 1
                        /\ IsFailure(msg) => AttemptsFor(msg.id, made) = 0
              /\ w'.queued_out_messages = <<>>
              /\ w'.all_out_messages = <<>>
              /\ w'.last_stageout_time = None ]_vars

\* the last position of `event` in the calls run() has made (0: none)
LastOf(event) ==
    IF Occurs(event, trace)
    THEN CHOOSE i \in 1..Len(trace) :
            trace[i] = event /\ \A j \in (i + 1)..Len(trace) : trace[j] # event
    ELSE 0

(* C12: when run() has ended and no exception was raised in it, exit_code is
   the status the worker process exited with; it was read by the poll() that
   is run()'s last call, after clean() and after the worker was seen not to
   be alive, whether the worker exited by itself or after the stop signal. *)
C12_ExitCodeIsWorkerStatus ==
    (Ended /\ ~HadException) =>
        /\ pc = "done"
        /\ ~worker.alive
        /\ worker.status # None
        /\ exit_code = worker.status
        /\ trace[Len(trace)] = "poll"
        /\ 0 < LastOf("clean")
        /\ LastOf("clean") < Len(trace)
        /\ Occurs("not_alive", SubSeq(trace, 1, LastOf("clean") - 1))

C12_Witness ==
    /\ pc = "done"
    /\ ~HadException
    /\ StopObserved
    /\ worker.stopped
    /\ exit_code = Some(1)

(* C13: when run() is over and the worker handle was created, the worker is
   not alive; and a clean() that finds the handle calls stop_communicator()
   only right after stop() and the wait that saw is_alive() false. *)
C13_WorkerNeverOrphaned ==
    proc # None =>
        /\ Ended => ~worker.alive
        /\ pc = "clean_comm" => ~worker.alive /\ worker.stopped
        /\ \A j \in 1..Len(trace) :
              trace[j] = "stop_communicator" =>
                 /\ j > 2
                 /\ trace[j - 1] = "not_alive"
                 /\ trace[j - 2] = "proc.stop"

\* how many times message id is in the list s
CountIn(id, s) == Cardinality({i \in 1..Len(s) : s[i].id = id})

\* the messages handle_out_message() has pushed on the pending queue
Pushed ==
    {i \in 1..Len(w.all_out_messages) :
        /\ ~IsFailure(w.all_out_messages[i])
        /\ ~(hpc = "classify" /\ i = Len(w.all_out_messages))}

(* C14: with handle_out_message() and stageout_es() interleaved statement by
   statement, every message pushed on the pending queue is in exactly one
   place: the queue, the list the running stageout_es() is filling, or one
   success batch; once stageout_es() has returned it is in the queue or in
   exactly one batch. *)
C14_PushedMessageInOnePlace ==
    /\ spc = "idle" => out_messages = <<>>
    /\ \A i \in Pushed :
          LET id == w.all_out_messages[i].id
          IN  CountIn(id, w.queued_out_messages) + CountIn(id, out_messages)
                + Cardinality(BatchEntries(id)) = 1

\* a batch in arrival order: message 2 was pushed while the loop was popping
C14_Witness ==
    /\ spc = "idle"
    /\ hpc = "idle"
    /\ \E i \in SuccessReports :
          /\ Len(BatchRanges(i)) = 2
          /\ BatchRanges(i)[1].eventRangeID = 1
          /\ BatchRanges(i)[2].eventRangeID = 2
    /\ \A i \in 1..2 : w.all_out_messages[i].status = "finished"

(* C15: an update_failed_event_ranges() call given k >= 1 messages that
   returns has made one update_events() call, whose report holds k records,
   the i-th with the fixed error code, the id of the i-th message and its
   status when that is 'failed' or 'fatal', "failed" otherwise. *)
C15_OneFailureReportPerCall ==
    [][ (call'.op = "update_failed_event_ranges" /\ nmsgs' > nmsgs /\ ~w'.raised) =>
          LET k == nmsgs' - nmsgs
              report == w'.sent[Len(w'.sent)].report
          IN  /\ Len(w'.sent) = Len(w.sent) + 1
              /\ report.version = 0
              /\ Len(report.eventRanges) = k
              /\ \A i \in 1..k :
                    /\ report.eventRanges[i].errorCode = ErrorCodePlaceholder
                    /\ report.eventRanges[i].eventRangeID = nmsgs + i
                    /\ report.eventRanges[i].eventStatus \in FailureStatuses ]_vars

\* run() is at the forced flush of line 203, or past it in the try block
AtOrAfterFinalFlush ==
    \/ pc = "final_stageout"
    \/ /\ ret = "normal"
       /\ pc \in {"clean", "clean_stop", "clean_wait", "clean_comm", "final_poll"}

(* C16: while run() is at stageout_es(force=True), or in the clean() or at
   the poll() that follow it in the try block, the worker process is not
   alive, and the call before every forced flush is the is_alive() that
   returned false. *)
C16_FinalFlushOnlyAfterWorkerDead ==
    /\ AtOrAfterFinalFlush => ~worker.alive
    /\ \A j \in 1..Len(trace) :
          trace[j] = "stageout_es(force)" => (j > 1 /\ trace[j - 1] = "not_alive")

C16_Witness ==
    /\ pc = "final_stageout"
    /\ StopObserved
    /\ worker.stopped
    /\ ~worker.alive
    /\ Len(w.queued_out_messages) = MaxMsgs

(* C17: when every call returns or raises and the worker process does not
   stay alive for ever, run() comes to its end, and with exit_code set. *)
C17_RunTerminatesWithExitCode == <>(Ended /\ exit_code # None)

(* C18: on a run() that found the payload neither pre-set nor retrievable,
   no worker process is created or started, no hook is registered and no
   report is made; when the run is over, clean() has been invoked and
   exit_code is the sentinel -1. *)
C18_NoPayloadFailsAtOnce ==
    Occurs("no_payload", trace) =>
        /\ proc = None
        /\ worker = [hooked |-> FALSE, alive |-> FALSE, status |-> None,
                     stopped |-> FALSE]
        /\ w.sent = <<>>
        /\ Ended => (Occurs("clean", trace) /\ exit_code = Some(SentinelExitCode))

(* C19: job.nevents is at every point its initial value, 0, plus the number
   of entries of the success batches update_events() has accepted so far;
   failure reports and flushes that send nothing add nothing. *)
C19_NeventsCountsTransmittedEntries ==
    /\ w.nevents = TransmittedCount
    /\ SuccessReports = {} => w.nevents = 0

C19_Witness ==
    /\ call.op = "stageout_es"
    /\ call.sends = 0
    /\ call.prior.op = "handle_out_message"
    /\ FailureReports # {}
    /\ \E i \in SuccessReports : w.sent[i].ok /\ Len(BatchRanges(i)) = 1
    /\ w.nevents = 1

(* C20: every handle_out_message() call appends its message to the audit
   log, whatever its status and even when the failure report it makes raises;
   stageout_es() leaves the audit log as it is; and any other change of the
   audit log is a clean() emptying it. *)
C20_AuditLogAppendOnly ==
    [][ /\ nmsgs' = nmsgs + 1 =>
              /\ call'.op = "handle_out_message"
              /\ w'.all_out_messages = Append(w.all_out_messages, call'.msg)
        /\ (nmsgs' = nmsgs /\ call'.op = "stageout_es") =>
              w'.all_out_messages = w.all_out_messages
        /\ (nmsgs' = nmsgs /\ w'.all_out_messages # w.all_out_messages) =>
              /\ call'.op = "clean"
              /\ w'.all_out_messages = <<>> ]_vars

C20_Witness ==
    /\ call.op = "handle_out_message"
    /\ call.msg.status = "fatal"
    /\ w.raised
    /\ call.prior.op = "stageout_es"
    /\ call.qlen = 0
    /\ Len(w.all_out_messages) = 2
    /\ w.all_out_messages[1].status = "finished"
    /\ w.all_out_messages[2] = call.msg

\* the calls run() made after its handler was entered for the first time
AfterExcept ==
    LET k == CHOOSE i \in 1..Len(trace) :
                trace[i] = "except" /\ \A j \in 1..(i - 1) : trace[j] # "except"
    IN  SubSeq(trace, k + 1, Len(trace))

(* C21: once run() has entered its exception handler, no stageout_es() is
   called any more, so no success batch is sent after the exception, and
   when run() returns the pending queue is empty. *)
C21_ExceptionDiscardsPending ==
    HadException =>
        /\ ~Occurs("stageout_es", AfterExcept)
        /\ ~Occurs("stageout_es(force)", AfterExcept)
        /\ pc = "done" => w.queued_out_messages = <<>>

\* how many entries of the list s are the message m
CountOf(m, s) == Cardinality({i \in 1..Len(s) : s[i] = m})

(* C22: with handle_out_message(), stageout_es() and clean() called one
   after the other, every entry of the pending queue is in the audit log at
   least as many times, and none has status 'failed' or 'fatal'; a message of
   any other status has just been queued by the handle_out_message() given
   it; and every message of the audit log with such a status is in the queue
   or in one success batch, where its eventStatus is "finished". *)
C22_QueueWithinAuditLogNoFailures ==
    /\ \A i \in 1..Len(w.queued_out_messages) :
          LET m == w.queued_out_messages[i]
          IN  /\ CountOf(m, w.queued_out_messages) <= CountOf(m, w.all_out_messages)
              /\ ~IsFailure(m)
    /\ (call.op = "handle_out_message" /\ ~IsFailure(call.msg)) =>
          /\ Len(w.queued_out_messages) = call.qlen + 1
          /\ w.queued_out_messages[Len(w.queued_out_messages)] = call.msg
    /\ \A i \in 1..Len(w.all_out_messages) :
          LET m == w.all_out_messages[i]
          IN  ~IsFailure(m) =>
                 /\ CountOf(m, w.queued_out_messages)
                       + Cardinality(BatchEntries(m.id)) = 1
                 /\ \A e \in BatchEntries(m.id) :
                       /\ BatchRanges(e[1])[e[2]].eventStatus = "finished"
                       /\ BatchRanges(e[1])[e[2]].fileLocation = m.output

C22_Witness ==
    /\ call.op = "stageout_es"
    /\ call.sends = 1
    /\ ~w.raised
    /\ w.queued_out_messages = <<>>
    /\ \E i \in 1..Len(w.all_out_messages) :
          /\ w.all_out_messages[i].status = "running"
          /\ TransmittedEntries(w.all_out_messages[i].id) # {}

====
